---- MODULE Spec2Model ----
(***************************************************************************)
(* ResearchAgent (src/web_search.py): construction with credential         *)
(* fallback, and run(question) = one planning call, a thread-pool fan-out   *)
(* of _search_web over the planned queries, URL collection, one synthesis   *)
(* call.  Python str values that the code inspects character by character   *)
(* (strip, json.loads) are sequences of one-character strings; values the   *)
(* code only copies or tests for emptiness (URLs, titles, keys) are atoms.  *)
(***************************************************************************)
EXTENDS Integers, Sequences, FiniteSets, TLC

VARIABLES
  agent,      \* "none" | "init" (constructor running) | "ok" | "failed"
  ctor,       \* the arguments and environment of the running constructor
  cfg,        \* self.model, self.topn, self.debug, self.gemini_key, self.serp_key
  pc,         \* position of run: idle, plan_call, retrieve, shutdown, synth_call, returned, raised
  question,   \* run's argument
  steps,      \* run's local list steps
  queries,    \* run's local list queries
  fut,        \* state of the future of each submitted _search_web call
  provided,   \* what the search provider answered to each call
  slots,      \* the block each finished call returned
  results,    \* run's local list results
  all_urls,   \* run's local list all_urls
  prompt,     \* the prompt of the last generate_content call
  result,     \* the dict run returned
  response,   \* the text the last generate_content call returned
  order,      \* the submitted calls that have returned, in the order they returned
  calls,      \* external calls issued in the current run
  errors,     \* external calls that raised in the current run
  prior       \* whether an earlier run on this agent has ended

vars == <<agent, ctor, cfg, pc, question, steps, queries, fut, provided, slots,
          results, all_urls, prompt, result, response, order, calls, errors,
          prior>>

\* ---------------------------------------------------------------- bounds

\* longest JSON array of queries among the planning responses
MaxPlanned == 2
\* largest top-N an agent is constructed with
MaxTopN == 2
\* longest organic_results list of the provider (specification SpecSearch)
MaxHits == 3

\* ---------------------------------------------------------------- helpers

Range(s) == {s[i] : i \in 1..Len(s)}

Min(a, b) == IF a <= b THEN a ELSE b

\* every sequence of length 0..n over S
SeqsUpTo(S, n) == UNION {[1..k -> S] : k \in 0..n}

\* every ordering of the finite set S as a sequence without repetition
Orderings(S) == {s \in [1..Cardinality(S) -> S] : Range(s) = S}

RECURSIVE Concat(_)
Concat(ss) == IF ss = <<>> THEN <<>> ELSE Head(ss) \o Concat(Tail(ss))

\* ---------------------------------------------------------------- Python values

None == "<None>"

\* Python truthiness of an Optional[str]
Truthy(x) == x # None /\ x # ""

\* a or b
Or(a, b) == IF Truthy(a) THEN a ELSE b

PyStr(cs) == [kind |-> "str", s |-> cs]
PyNum(cs) == [kind |-> "num", n |-> cs]
PyList(xs) == [kind |-> "list", items |-> xs]

\* dict.get(key, default)
Get(d, key, default) == IF key \in DOMAIN d THEN d[key] ELSE default

Whitespace == {" ", "\n"}
Digits == {"1"}
Quote == "\""

\* str.strip(): drop the leading and the trailing whitespace
Strip(cs) ==
  LET keep == {i \in 1..Len(cs) : cs[i] \notin Whitespace}
  IN IF keep = {} THEN <<>>
     ELSE LET lo == CHOOSE i \in keep : \A j \in keep : i <= j
              hi == CHOOSE i \in keep : \A j \in keep : j <= i
          IN SubSeq(cs, lo, hi)

\* ---------------------------------------------------------------- json.loads

\* first position >= i that holds no whitespace (Len + 1 at the end)
SkipWs(cs, i) ==
  LET stop == {j \in i..Len(cs) : cs[j] \notin Whitespace}
  IN IF stop = {} THEN Len(cs) + 1
     ELSE CHOOSE j \in stop : \A k \in stop : j <= k

Fail == [ok |-> FALSE]
Parsed(v, next) == [ok |-> TRUE, v |-> v, next |-> next]

\* a string literal that opens at position i
ParseString(cs, i) ==
  LET close == {j \in (i + 1)..Len(cs) : cs[j] = Quote}
  IN IF close = {} THEN Fail
     ELSE LET j == CHOOSE j \in close : \A k \in close : j <= k
              body == SubSeq(cs, i + 1, j - 1)
          IN IF \E k \in 1..Len(body) : body[k] = "\n" THEN Fail
             ELSE Parsed(PyStr(body), j + 1)

\* a number that starts at position i
ParseNumber(cs, i) ==
  LET stop == {j \in i..Len(cs) : cs[j] \notin Digits}
      j == IF stop = {} THEN Len(cs) + 1
           ELSE CHOOSE j \in stop : \A k \in stop : j <= k
  IN Parsed(PyNum(SubSeq(cs, i, j - 1)), j)

RECURSIVE ParseValue(_, _)
RECURSIVE ParseItems(_, _, _)

\* the value that starts at position i
ParseValue(cs, i) ==
  IF i > Len(cs) THEN Fail
  ELSE IF cs[i] = Quote THEN ParseString(cs, i)
  ELSE IF cs[i] \in Digits THEN ParseNumber(cs, i)
  ELSE IF cs[i] = "["
    THEN LET j == SkipWs(cs, i + 1)
         IN IF j <= Len(cs) /\ cs[j] = "]" THEN Parsed(PyList(<<>>), j + 1)
            ELSE ParseItems(cs, j, <<>>)
  ELSE Fail

\* the items of an array from position i on, acc being the items read so far
ParseItems(cs, i, acc) ==
  LET item == ParseValue(cs, i)
  IN IF ~item.ok THEN Fail
     ELSE LET j == SkipWs(cs, item.next)
              sofar == Append(acc, item.v)
          IN IF j > Len(cs) THEN Fail
             ELSE IF cs[j] = "]" THEN Parsed(PyList(sofar), j + 1)
             ELSE IF cs[j] = "," THEN ParseItems(cs, SkipWs(cs, j + 1), sofar)
             ELSE Fail

\* json.loads(text): the whole text must be one value
json_loads(cs) ==
  LET r == ParseValue(cs, SkipWs(cs, 1))
  IN IF ~r.ok THEN Fail
     ELSE IF SkipWs(cs, r.next) <= Len(cs) THEN Fail
     ELSE r

\* ---------------------------------------------------------------- inputs

Models == {"gemini-2.5-flash"}
ExplicitKeys == {None, "", "key-arg"}
EnvKeys == {None, "", "key-env"}
Questions == {"Q1", "Q2"}

\* the text of a JSON array of string literals, as a language model writes it
RECURSIVE ArrayBody(_)
ArrayBody(ws) ==
  IF ws = <<>> THEN <<>>
  ELSE <<Quote>> \o Head(ws) \o <<Quote>>
       \o (IF Len(ws) > 1 THEN <<",", " ">> ELSE <<>>) \o ArrayBody(Tail(ws))

ArrayText(ws) == <<"[">> \o ArrayBody(ws) \o <<"]">>

\* k planned queries: a, b, a, ...
QueryList(k) == [i \in 1..k |-> IF i % 2 = 1 THEN <<"a">> ELSE <<"b">>]

\* what generate_content may answer to the planning prompt
PlanResponses ==
  {ArrayText(QueryList(k)) : k \in 0..MaxPlanned}
  \cup { ArrayText(<< <<"a">>, <<"a">> >>),             \* the same query twice
         <<"a", " ", "b">>,                            \* plain text
         <<" ", "a", " ", "b", "\n">>,                 \* plain text, padded
         <<"\n">> \o ArrayText(<<<<"a">>>>) \o <<" ">>, \* an array, padded
         <<Quote, "a", Quote>>,                        \* a JSON string
         <<"1">>,                                      \* a JSON number
         <<"[", "1", "]">>,                            \* an array of a number
         <<"[", Quote, "a", Quote, ",", "]">>,         \* a trailing comma
         <<"[", Quote, "a", Quote>> }                  \* an unclosed array

\* what generate_content may answer to the final prompt
SynthResponses == { <<"a">>, <<"\n", "b", " ">> }

rA == [title |-> "A", snippet |-> "sa", link |-> "u1"]
rB == [title |-> "B", link |-> "u2"]
rC == [snippet |-> "sc", link |-> ""]
rD == [title |-> "D"]

ProviderRecords == {rA, rB, rC, rD}

\* what SerpAPI's get_dict() may answer in a run
SearchStub ==
  { [error |-> "no results"],
    [organic_results |-> <<rA, rC>>],
    [organic_results |-> <<rB, rA, rD>>] }

\* what SerpAPI's get_dict() may answer to one call (specification SpecSearch)
ProviderResponses ==
  {[error |-> "no results"]}
  \cup {[organic_results |-> rs] : rs \in SeqsUpTo(ProviderRecords, MaxHits)}

\* ---------------------------------------------------------------- the agent

NoCtor == [none |-> TRUE]
NoCfg == [none |-> TRUE]
NoResult == [none |-> TRUE]
NoBlock == [none |-> TRUE]
NoPrompt == [none |-> TRUE]
NoCalls == [plan |-> 0, search |-> <<>>, synth |-> 0]

Init ==
  /\ agent = "none"
  /\ ctor = NoCtor
  /\ cfg = NoCfg
  /\ pc = "idle"
  /\ question = None
  /\ steps = <<>>
  /\ queries = <<>>
  /\ fut = <<>>
  /\ provided = <<>>
  /\ slots = <<>>
  /\ results = <<>>
  /\ all_urls = <<>>
  /\ prompt = NoPrompt
  /\ result = NoResult
  /\ response = None
  /\ order = <<>>
  /\ calls = NoCalls
  /\ errors = 0
  /\ prior = FALSE

runVars == <<pc, question, steps, queries, fut, provided, slots, results,
             all_urls, prompt, result, response, order, calls, errors, prior>>

\* ResearchAgent(model, topn, debug, gemini_key, serpapi_key) is called in an
\* environment that holds GEMINI_API_KEY and SERPAPI_API_KEY (or not)
Instantiate(m, n, d, gk, sk, eg, es) ==
  /\ agent = "none"
  /\ agent' = "init"
  /\ ctor' = [model |-> m, topn |-> n, debug |-> d, gemini_key |-> gk,
              serpapi_key |-> sk, env_gemini |-> eg, env_serp |-> es]
  /\ UNCHANGED <<cfg, runVars>>

\* not self.gemini_key or not self.serp_key
MissingKeyBoth(gemini_key, serp_key) == ~Truthy(gemini_key) /\ ~Truthy(serp_key)

MissingKey(gemini_key, serp_key) == ~Truthy(gemini_key) \/ ~Truthy(serp_key)

\* the body of the constructor
__init__ ==
  /\ agent = "init"
  /\ LET gemini_key == Or(ctor.gemini_key, ctor.env_gemini)
         serp_key == Or(ctor.serpapi_key, ctor.env_serp)
     IN IF MissingKey(gemini_key, serp_key)
        THEN /\ agent' = "failed"
             /\ cfg' = cfg
        ELSE /\ agent' = "ok"
             /\ cfg' = [model |-> ctor.model, topn |-> ctor.topn,
                        debug |-> ctor.debug, gemini_key |-> gemini_key,
                        serp_key |-> serp_key]
  /\ ctor' = NoCtor
  /\ UNCHANGED runVars

\* ---------------------------------------------------------------- _search_web

\* data[: n]
SliceAll(data, n) == data

Slice(data, n) ==
  IF n >= 0 THEN SubSeq(data, 1, Min(n, Len(data)))
  ELSE SubSeq(data, 1, Len(data) + n)

\* one entry of results
Entry(r) ==
  [title |-> Get(r, "title", "(untitled)"),
   snippet |-> Get(r, "snippet", "(no snippet)"),
   url |-> Get(r, "link", "")]

\* the block _search_web returns when the provider's get_dict() gives answer
_search_web(query, answer) ==
  LET data == Slice(Get(answer, "organic_results", <<>>), cfg.topn)
  IN [query |-> query, results |-> [j \in 1..Len(data) |-> Entry(data[j])]]

\* ---------------------------------------------------------------- run

\* steps: list = []
CarriedSteps == steps

LocalSteps == <<>>

\* the planning prompt
search_prompt(q) == [kind |-> "plan", question |-> q]

\* run is called: the locals are fresh and the planning call is issued
RunStart(q) ==
  /\ agent = "ok"
  /\ pc \in {"idle", "returned", "raised"}
  /\ question' = q
  /\ steps' = LocalSteps
  /\ queries' = <<>>
  /\ fut' = <<>>
  /\ provided' = <<>>
  /\ slots' = <<>>
  /\ results' = <<>>
  /\ all_urls' = <<>>
  /\ result' = NoResult
  /\ prompt' = search_prompt(q)
  /\ calls' = [plan |-> 1, search |-> <<>>, synth |-> 0]
  /\ errors' = 0
  /\ response' = None
  /\ order' = <<>>
  /\ prior' = (pc # "idle")
  /\ pc' = "plan_call"
  /\ UNCHANGED <<agent, ctor, cfg>>

\* the try block that turns the stripped planning text into queries
PlanQueriesNoListCheck(search_queries_text) ==
  LET parsed == json_loads(search_queries_text)
  IN IF parsed.ok
     THEN IF parsed.v.kind = "list" THEN parsed.v.items ELSE <<parsed.v>>
     ELSE <<PyStr(search_queries_text)>>

PlanQueries(search_queries_text) ==
  LET parsed == json_loads(search_queries_text)
  IN IF parsed.ok
     THEN IF parsed.v.kind = "list" THEN parsed.v.items
          ELSE <<PyStr(search_queries_text)>>
     ELSE <<PyStr(search_queries_text)>>

\* pool.map submits one call of _search_web for each query
Submitted(qs) == [i \in 1..Len(qs) |-> "pending"]

\* the planning call returns text: the queries are planned and submitted
PlanReturns(text) ==
  /\ pc = "plan_call"
  /\ LET qs == PlanQueries(Strip(text))
     IN /\ queries' = qs
        /\ fut' = Submitted(qs)
        /\ provided' = [i \in 1..Len(qs) |-> NoBlock]
        /\ slots' = [i \in 1..Len(qs) |-> NoBlock]
        /\ calls' = [calls EXCEPT !.search = [i \in 1..Len(qs) |-> 0]]
  /\ response' = text
  /\ pc' = "retrieve"
  /\ UNCHANGED <<agent, ctor, cfg, question, steps, results, all_urls, prompt,
                 result, order, errors, prior>>

\* the planning call raises
PlanFails ==
  /\ pc = "plan_call"
  /\ pc' = "raised"
  /\ errors' = errors + 1
  /\ UNCHANGED <<agent, ctor, cfg, question, steps, queries, fut, provided,
                 slots, results, all_urls, prompt, result, response, order,
                 calls, prior>>

\* a worker thread takes call i and issues the search
WorkerStart(i) ==
  /\ pc = "retrieve"
  /\ i \in DOMAIN fut
  /\ fut[i] = "pending"
  /\ fut' = [fut EXCEPT ![i] = "running"]
  /\ calls' = [calls EXCEPT !.search[i] = @ + 1]
  /\ UNCHANGED <<agent, ctor, cfg, pc, question, steps, queries, provided,
                 slots, results, all_urls, prompt, result, response, order,
                 errors, prior>>

\* the provider answers call i and _search_web returns its block
SearchReturns(i, answer) ==
  /\ pc \in {"retrieve", "shutdown"}
  /\ i \in DOMAIN fut
  /\ fut[i] = "running"
  /\ fut' = [fut EXCEPT ![i] = "done"]
  /\ provided' = [provided EXCEPT ![i] = answer]
  /\ slots' = [slots EXCEPT ![i] = _search_web(queries[i], answer)]
  /\ order' = Append(order, i)
  /\ UNCHANGED <<agent, ctor, cfg, pc, question, steps, queries, results,
                 all_urls, prompt, result, response, calls, errors, prior>>

\* call i raises inside its worker
SearchFailsRetry(i) ==
  /\ pc \in {"retrieve", "shutdown"}
  /\ i \in DOMAIN fut
  /\ fut[i] = "running"
  /\ fut' = [fut EXCEPT ![i] = "pending"]
  /\ errors' = errors + 1
  /\ UNCHANGED <<agent, ctor, cfg, pc, question, steps, queries, provided,
                 slots, results, all_urls, prompt, result, response, order,
                 calls, prior>>

SearchFailsTolerated(i) ==
  /\ pc \in {"retrieve", "shutdown"}
  /\ i \in DOMAIN fut
  /\ fut[i] = "running"
  /\ fut' = [fut EXCEPT ![i] = "done"]
  /\ slots' = [slots EXCEPT ![i] = [query |-> queries[i], results |-> <<>>]]
  /\ order' = Append(order, i)
  /\ errors' = errors + 1
  /\ UNCHANGED <<agent, ctor, cfg, pc, question, steps, queries, provided,
                 results, all_urls, prompt, result, response, calls, prior>>

SearchFails(i) ==
  /\ pc \in {"retrieve", "shutdown"}
  /\ i \in DOMAIN fut
  /\ fut[i] = "running"
  /\ fut' = [fut EXCEPT ![i] = "failed"]
  /\ errors' = errors + 1
  /\ UNCHANGED <<agent, ctor, cfg, pc, question, steps, queries, provided,
                 slots, results, all_urls, prompt, result, response, order,
                 calls, prior>>

\* list(pool.map(...)): the blocks in the order of the futures
MapResultsAsCompleted(blocks) == [k \in 1..Len(order) |-> blocks[order[k]]]

MapResults(blocks) == blocks

\* list(...) has consumed every future
MapAllDone == \A i \in DOMAIN fut : fut[i] = "done"

\* the URLs of one block, in order, the empty ones left out
BlockUrls(block) ==
  SelectSeq([j \in 1..Len(block.results) |-> block.results[j].url],
            LAMBDA u : u # "")

\* the section of the context that renders one block
Section(block) ==
  [search |-> block.query,
   lines |-> [j \in 1..Len(block.results) |->
                [title |-> block.results[j].title,
                 snippet |-> block.results[j].snippet,
                 source |-> block.results[j].url]]]

\* the final prompt
final_prompt(q, blocks) ==
  [kind |-> "final", question |-> q,
   context |-> [i \in 1..Len(blocks) |-> Section(blocks[i])]]

\* every future has a result: the with block ends, the URLs and the context
\* are collected and the synthesis call is issued
Gather ==
  /\ pc = "retrieve"
  /\ MapAllDone
  /\ LET blocks == MapResults(slots)
     IN /\ results' = blocks
        /\ all_urls' = Concat([i \in 1..Len(blocks) |-> BlockUrls(blocks[i])])
        /\ prompt' = final_prompt(question, blocks)
  /\ calls' = [calls EXCEPT !.synth = @ + 1]
  /\ pc' = "synth_call"
  /\ UNCHANGED <<agent, ctor, cfg, question, steps, queries, fut, provided,
                 slots, result, response, order, errors, prior>>

\* the first future that is not done has failed: its exception leaves the map
\* iterator, which cancels the futures that have not started
MapRaises ==
  /\ pc = "retrieve"
  /\ \E i \in DOMAIN fut :
       /\ fut[i] = "failed"
       /\ \A j \in 1..(i - 1) : fut[j] = "done"
  /\ fut' = [i \in DOMAIN fut |-> IF fut[i] = "pending" THEN "cancelled" ELSE fut[i]]
  /\ pc' = "shutdown"
  /\ UNCHANGED <<agent, ctor, cfg, question, steps, queries, provided, slots,
                 results, all_urls, prompt, result, response, order, calls,
                 errors, prior>>

\* shutdown(wait=True): no worker is still running a call
PoolNotJoined == TRUE

PoolJoined == \A i \in DOMAIN fut : fut[i] # "running"

\* the with block is left by the exception, which reaches run's caller
PoolExit ==
  /\ pc = "shutdown"
  /\ PoolJoined
  /\ pc' = "raised"
  /\ UNCHANGED <<agent, ctor, cfg, question, steps, queries, fut, provided,
                 slots, results, all_urls, prompt, result, response, order,
                 calls, errors, prior>>

\* list(set(all_urls)): each URL once, in an order the hashing decides
SourcesKeepAll(urls) == {urls}

Sources(urls) == Orderings(Range(urls))

\* the synthesis call returns text: run returns its dict
SynthReturns(text, sources) ==
  /\ pc = "synth_call"
  /\ sources \in Sources(all_urls)
  /\ LET answer == Strip(text)
         trace == Append(steps, [type |-> "assistant_answer", content |-> answer])
     IN /\ steps' = trace
        /\ result' = [question |-> question, answer |-> answer,
                      sources |-> sources, steps |-> trace]
  /\ response' = text
  /\ pc' = "returned"
  /\ UNCHANGED <<agent, ctor, cfg, question, queries, fut, provided, slots,
                 results, all_urls, prompt, order, calls, errors, prior>>

\* the synthesis call raises
SynthFails ==
  /\ pc = "synth_call"
  /\ pc' = "raised"
  /\ errors' = errors + 1
  /\ UNCHANGED <<agent, ctor, cfg, question, steps, queries, fut, provided,
                 slots, results, all_urls, prompt, result, response, order,
                 calls, prior>>

Next ==
  \/ \E m \in Models, n \in 1..MaxTopN, d \in BOOLEAN,
        gk \in ExplicitKeys, sk \in ExplicitKeys, eg \in EnvKeys, es \in EnvKeys :
       Instantiate(m, n, d, gk, sk, eg, es)
  \/ __init__
  \/ \E q \in Questions : RunStart(q)
  \/ \E text \in PlanResponses : PlanReturns(text)
  \/ PlanFails
  \/ \E i \in DOMAIN fut : WorkerStart(i)
  \/ \E i \in DOMAIN fut, answer \in SearchStub : SearchReturns(i, answer)
  \/ \E i \in DOMAIN fut : SearchFails(i)
  \/ Gather
  \/ MapRaises
  \/ PoolExit
  \/ \E text \in SynthResponses, sources \in Sources(all_urls) : SynthReturns(text, sources)
  \/ SynthFails

Spec == Init /\ [][Next]_vars

\* ---------------------------------------------------------------- _search_web alone

\* one call of _search_web is running in a constructed agent
InitSearch ==
  /\ agent = "ok"
  /\ ctor = NoCtor
  /\ \E n \in 1..MaxTopN :
       cfg = [model |-> "gemini-2.5-flash", topn |-> n, debug |-> FALSE,
              gemini_key |-> "key-arg", serp_key |-> "key-env"]
  /\ pc = "retrieve"
  /\ question = "Q1"
  /\ steps = <<>>
  /\ queries = <<PyStr(<<"a">>)>>
  /\ fut = <<"running">>
  /\ provided = <<NoBlock>>
  /\ slots = <<NoBlock>>
  /\ results = <<>>
  /\ all_urls = <<>>
  /\ prompt = search_prompt("Q1")
  /\ result = NoResult
  /\ response = ArrayText(QueryList(1))
  /\ order = <<>>
  /\ calls = [plan |-> 1, search |-> <<1>>, synth |-> 0]
  /\ errors = 0
  /\ prior = FALSE

NextSearch == \E answer \in ProviderResponses : SearchReturns(1, answer)

SpecSearch == InitSearch /\ [][NextSearch]_vars

\* ---------------------------------------------------------------- properties

\* the planning text has arrived and run has gone on from it
Planned == pc \in {"retrieve", "shutdown", "synth_call"}

\* the retrieval stage has handed control to a later step
PastRetrieval == pc \in {"synth_call", "returned", "raised"}

\* json.loads fails on the text, or gives something that is no list
NotJsonArray(text) ==
  LET parsed == json_loads(text)
  IN ~parsed.ok \/ parsed.v.kind # "list"

\* the non-empty URLs of the blocks the run's search calls returned
UrlsRetrieved ==
  UNION {{slots[i].results[j].url : j \in 1..Len(slots[i].results)} :
           i \in {k \in DOMAIN slots : fut[k] = "done"}} \ {""}

\* C1: the sources of a returned result are exactly the non-empty URLs of all
\* the blocks retrieved in the run, each URL once and the empty URL never
C1_SourcesAreUrlUnion ==
  pc = "returned" =>
    /\ Range(result.sources) = UrlsRetrieved
    /\ Len(result.sources) = Cardinality(UrlsRetrieved)
    /\ \A k \in 1..Len(result.sources) : result.sources[k] # ""

\* a run has returned whose blocks share a URL and hold an empty URL
C1_Witness ==
  /\ pc = "returned"
  /\ Len(results) = 2
  /\ \E j \in 1..Len(results[1].results), k \in 1..Len(results[2].results) :
       /\ results[1].results[j].url # ""
       /\ results[1].results[j].url = results[2].results[k].url
  /\ \E j \in 1..Len(results[1].results) : results[1].results[j].url = ""
  /\ Len(result.sources) = 2

\* C2: whatever the order in which the search calls finish, the blocks of the
\* retrieval stage are one per planned query, block i carrying query i, and the
\* context sections of the final prompt follow the same order
C2_BlocksInQueryOrder ==
  pc \in {"synth_call", "returned"} =>
    /\ Len(results) = Len(queries)
    /\ \A i \in 1..Len(queries) : results[i].query = queries[i]
    /\ Len(prompt.context) = Len(queries)
    /\ \A i \in 1..Len(queries) : prompt.context[i].search = queries[i]

\* two different queries whose calls finished in the reverse order
C2_Witness ==
  /\ pc = "synth_call"
  /\ Len(queries) = 2
  /\ queries[1] # queries[2]
  /\ order = <<2, 1>>

PlannedLimit == 5

\* C4: the queries handed to the retrieval stage are 1 to 5 strings
C4_OneToFiveStrings ==
  response # None =>
    /\ Len(queries) >= 1
    /\ Len(queries) <= PlannedLimit
    /\ \A i \in 1..Len(queries) : queries[i].kind = "str"

\* C5: once an external call of a run has failed, the run returns no result and
\* ends only by raising, and no call is issued a second time
C5_FailurePropagates ==
  /\ errors > 0 => (result = NoResult /\ pc \in {"retrieve", "shutdown", "raised"})
  /\ pc = "raised" => (errors > 0 /\ result = NoResult)
  /\ calls.plan <= 1
  /\ calls.synth <= 1
  /\ \A i \in DOMAIN calls.search : calls.search[i] <= 1

\* a run has raised after one search call failed and another returned
C5_Witness ==
  /\ pc = "raised"
  /\ result = NoResult
  /\ \E i \in DOMAIN fut : fut[i] = "failed"
  /\ \E i \in DOMAIN fut : fut[i] = "done"

\* C6: with topn >= 1 the results of a block are the first min(topn, length)
\* results of the provider, in the provider's order
C6_FirstTopN ==
  \A i \in DOMAIN fut :
    (fut[i] = "done" /\ cfg.topn >= 1) =>
      LET given == Get(provided[i], "organic_results", <<>>)
          kept == slots[i].results
      IN /\ Len(kept) = Min(cfg.topn, Len(given))
         /\ slots[i].query = queries[i]
         /\ \A j \in 1..Len(kept) :
              /\ kept[j].url = Get(given[j], "link", "")
              /\ kept[j].title = Get(given[j], "title", "(untitled)")
              /\ kept[j].snippet = Get(given[j], "snippet", "(no snippet)")

\* the provider gave more than topn results and the block holds topn of them
C6_Witness ==
  /\ fut = <<"done">>
  /\ "organic_results" \in DOMAIN provided[1]
  /\ Len(provided[1].organic_results) > cfg.topn
  /\ Len(slots[1].results) = cfg.topn

\* C7: the constructor succeeds exactly when, for each of the two credentials,
\* the argument or else the environment gives a non-empty value, and it fails
\* otherwise; an agent that is not constructed issues no call
C7_CredentialGate ==
  /\ [][agent = "init" =>
          /\ agent' \in {"ok", "failed"}
          /\ agent' = "ok" <=>
               /\ Truthy(ctor.gemini_key) \/ Truthy(ctor.env_gemini)
               /\ Truthy(ctor.serpapi_key) \/ Truthy(ctor.env_serp)
          /\ agent' = "ok" => (Truthy(cfg'.gemini_key) /\ Truthy(cfg'.serp_key))]_vars
  /\ [](agent # "ok" => (calls = NoCalls /\ pc = "idle"))

\* an agent whose first key came from the environment and second from the argument
C7_Witness ==
  /\ agent = "ok"
  /\ cfg.gemini_key = "key-env"
  /\ cfg.serp_key = "key-arg"

\* C8 as stated: when the retrieval stage hands control on, every submitted
\* search call has completed or failed, none was never executed
C8_AllCompletedOrFailed ==
  PastRetrieval => \A i \in DOMAIN fut : fut[i] \in {"done", "failed"}

\* C8, amended: when the retrieval stage hands control on, every submitted
\* search call has completed, failed, or was cancelled before it started because
\* an earlier call's failure was raised; a call that started was executed once
\* and none is still in flight
C8_JoinAll ==
  PastRetrieval =>
    \A i \in DOMAIN fut :
      /\ fut[i] \in {"done", "failed", "cancelled"}
      /\ fut[i] = "cancelled" =>
           (calls.search[i] = 0 /\ \E j \in DOMAIN fut : fut[j] = "failed")
      /\ fut[i] \in {"done", "failed"} => calls.search[i] = 1

\* a run has raised with a search call that was cancelled before it started
C8_Witness ==
  /\ pc = "raised"
  /\ \E i \in DOMAIN fut : fut[i] = "cancelled"

\* C9: a run that returns has issued one planning call, one search call for each
\* planned query (duplicates included) and one synthesis call; no search call is
\* issued before the planning text has arrived, and the synthesis call is issued
\* only when every search call has returned
C9_CallsOfAReturnedRun ==
  /\ pc = "returned" =>
       /\ calls.plan = 1
       /\ calls.synth = 1
       /\ Len(calls.search) = Len(queries)
       /\ \A i \in 1..Len(queries) : calls.search[i] = 1
  /\ (\E i \in DOMAIN calls.search : calls.search[i] > 0) =>
       (calls.plan = 1 /\ pc # "plan_call")
  /\ calls.synth > 0 => \A i \in DOMAIN fut : fut[i] = "done"

\* a run has returned that planned the same query twice
C9_Witness ==
  /\ pc = "returned"
  /\ Len(queries) = 2
  /\ queries[1] = queries[2]
  /\ calls.search = <<1, 1>>

\* C10: no step of a run changes the agent's configuration; a run starts with
\* empty locals; and the result a run returns holds that run's question, the
\* stripped text of that run's synthesis call as answer and as the single step,
\* and only URLs retrieved in that run
C10_ConfigurationAndFrame ==
  [][/\ agent = "ok" => (agent' = "ok" /\ cfg' = cfg)
     /\ (pc # "plan_call" /\ pc' = "plan_call") =>
          /\ steps' = <<>>
          /\ queries' = <<>>
          /\ slots' = <<>>
          /\ results' = <<>>
          /\ all_urls' = <<>>
     /\ (pc # "returned" /\ pc' = "returned") =>
          /\ result'.question = question
          /\ result'.answer = Strip(response')
          /\ result'.steps = <<[type |-> "assistant_answer", content |-> result'.answer]>>
          /\ Range(result'.sources) \subseteq UrlsRetrieved]_vars

\* a run has returned on an agent that had ended an earlier run
C10_Witness ==
  /\ pc = "returned"
  /\ prior
  /\ Len(result.steps) = 1

====
